---- MODULE Spec2Model ----
(***************************************************************************)
(* Model of the London metadata cleaning pipeline                          *)
(*   src/Underground Microbial Landscape/test1.py  clean_london_metadata   *)
(*   src/pythonProject7/test2.py     canon_surface, norm_station, controls *)
(*                                                                         *)
(* Text is a sequence of one-character strings, so that strip, lower,      *)
(* upper, split, join, substring search and lexicographic comparison are   *)
(* computed character by character as Python/pandas compute them.          *)
(* A missing cell is one of two values: NaN (numpy's float nan, what       *)
(* read_csv yields) and PDNA (pandas.NA, what first_nonnull returns).      *)
(***************************************************************************)
EXTENDS Integers, Sequences, FiniteSets, Bags, TLC

VARIABLES pc, csv, df, lon, lon_clean, lon_air, lon_surface, exported, surf,
          analysis, norm

vars == <<pc, csv, df, lon, lon_clean, lon_air, lon_surface, exported, surf,
          analysis, norm>>

----------------------------------------------------------------------------
(* Bounds of the model *)

\* most rows of an input table drawn for the identifier cases
MaxIdRows == 2
\* most rows of an input table drawn for the merge cases
MaxMergeRows == 3
\* most rows of an input table drawn for the air/surface split cases
MaxSplitRows == 2
\* most rows of an input table drawn for the station_name cases
MaxStationRows == 2
\* longest surface string given to canon_surface
MaxSurfLen == 3
\* most rows of an input table drawn for the control-sample cases
MaxControlRows == 2
\* longest station name given to norm_station
MaxNormLen == 4

----------------------------------------------------------------------------
(* Missing values and text *)

NaN == <<"float:nan">>
PDNA == <<"pandas:NA">>

\* pd.isna / pd.notna / Series.isna
IsNA(v) == v = NaN \/ v = PDNA
NotNA(v) == ~IsNA(v)

\* "london", "CSD17_AIR", "air", "", "nan", "None" as the code writes them
london_name == <<"l","o","n","d","o","n">>
CSD17_AIR == <<"C","S","D","1","7","_","A","I","R">>
air == <<"a","i","r">>
EmptyStr == <<>>
nanStr == <<"n","a","n">>
NoneStr == <<"N","o","n","e">>
NAStr == <<"<","N","A",">">>

\* str(v) / Series.astype(str): text stays, nan prints "nan", pd.NA prints "<NA>"
AsStr(v) == IF v = NaN THEN nanStr ELSE IF v = PDNA THEN NAStr ELSE v

UpperLetters == <<"A","B","C","D","E","F","G","H","I","J","K","L","M",
                  "N","O","P","Q","R","S","T","U","V","W","X","Y","Z">>
LowerLetters == <<"a","b","c","d","e","f","g","h","i","j","k","l","m",
                  "n","o","p","q","r","s","t","u","v","w","x","y","z">>
Digits == <<"0","1","2","3","4","5","6","7","8","9">>

\* code-point order of the characters the model uses (ASCII)
CharOrder == <<" ">> \o Digits \o <<";", "<", ">">> \o UpperLetters
             \o <<"_">> \o LowerLetters

IndexIn(c, seq) == CHOOSE i \in DOMAIN seq : seq[i] = c
InSeq(c, seq) == \E i \in DOMAIN seq : seq[i] = c
Ord(c) == IndexIn(c, CharOrder)

LowerChar(c) == IF InSeq(c, UpperLetters) THEN LowerLetters[IndexIn(c, UpperLetters)] ELSE c
UpperChar(c) == IF InSeq(c, LowerLetters) THEN UpperLetters[IndexIn(c, LowerLetters)] ELSE c

\* str.lower / str.upper
Lower(s) == [i \in DOMAIN s |-> LowerChar(s[i])]
Upper(s) == [i \in DOMAIN s |-> UpperChar(s[i])]

IsSpace(c) == c = " "

RECURSIVE LStrip(_)
LStrip(s) == IF s # <<>> /\ IsSpace(Head(s)) THEN LStrip(Tail(s)) ELSE s

RECURSIVE RStrip(_)
RStrip(s) == IF s # <<>> /\ IsSpace(s[Len(s)]) THEN RStrip(SubSeq(s, 1, Len(s) - 1)) ELSE s

\* str.strip
Strip(s) == RStrip(LStrip(s))

\* sub in s (str.contains with a literal pattern)
Contains(s, sub) ==
    \E i \in 1..(Len(s) - Len(sub) + 1) : SubSeq(s, i, i + Len(sub) - 1) = sub

\* s < t in Python's string order
StrLess(s, t) ==
    \E k \in 1..(Len(t)) :
        /\ \A j \in 1..(k - 1) : j <= Len(s) /\ s[j] = t[j]
        /\ \/ k = Len(s) + 1
           \/ k <= Len(s) /\ Ord(s[k]) < Ord(t[k])

\* str.split(sep) for a one-character separator: always at least one part
RECURSIVE SplitAcc(_, _, _)
SplitAcc(s, sep, cur) ==
    IF s = <<>> THEN <<cur>>
    ELSE IF Head(s) = sep THEN <<cur>> \o SplitAcc(Tail(s), sep, <<>>)
    ELSE SplitAcc(Tail(s), sep, Append(cur, Head(s)))
Split(s, sep) == SplitAcc(s, sep, <<>>)

\* sep.join(parts)
RECURSIVE Join(_, _)
Join(parts, sep) ==
    IF parts = <<>> THEN <<>>
    ELSE IF Len(parts) = 1 THEN parts[1]
    ELSE parts[1] \o <<sep>> \o Join(Tail(parts), sep)

----------------------------------------------------------------------------
(* Tables.  A row is a record: one field per column, and "index", the     *)
(* row's label in the DataFrame index.                                     *)

\* the columns of complete_metadata.csv the model carries
CsvCols == {"city", "sl_name", "metasub_name", "uuid", "project",
            "station", "line", "sample_type", "surface", "num_reads"}

\* keep_cols restricted to the columns present
KeepCols == {"sample_id"} \cup CsvCols

\* a float64 cell: a number or nan
Num(n) == [nan |-> FALSE, val |-> n]
NumNaN == [nan |-> TRUE, val |-> 0]

\* the texts read_csv turns into NaN (its default na_values) that the
\* model's characters can spell; the empty cell is the common one
NaValues == {EmptyStr, nanStr, NAStr, <<"N","a","N">>, <<"N","A">>,
             <<"N","U","L","L">>, <<"n","u","l","l">>}

ReadCsvCell(text) == IF text \in NaValues THEN NaN ELSE text

\* pd.read_csv: one DataFrame row per line, labelled 0, 1, 2, ...
ReadCsv(file) ==
    [i \in 1..Len(file) |->
        [c \in CsvCols \cup {"index"} |->
            IF c = "index" THEN i - 1 ELSE ReadCsvCell(file[i][c])]]

\* df["city"].astype(str).str.lower() == london_name
IsLondon(r) == Lower(AsStr(r.city)) = london_name

\* Series.isna() | (Series.astype(str).str.strip() == "")
IdMaskNaOnly(v) == IsNA(v)
IdMask(v) == IsNA(v) \/ Strip(AsStr(v)) = EmptyStr

\* sample_id: sl_name, then metasub_name where masked, then uuid where masked
ResolveSampleId(r) ==
    LET s0 == r.sl_name
        s1 == IF IdMask(s0) THEN r.metasub_name ELSE s0
        s2 == IF IdMask(s1) THEN r.uuid ELSE s1
    IN  s2

IsDigits(s) == s # <<>> /\ \A i \in DOMAIN s : InSeq(s[i], Digits)

RECURSIVE DigitsValue(_)
DigitsValue(s) ==
    IF s = <<>> THEN 0
    ELSE 10 * DigitsValue(SubSeq(s, 1, Len(s) - 1)) + (IndexIn(s[Len(s)], Digits) - 1)

\* pd.to_numeric(errors="coerce"): a decimal numeral parses, anything else is nan
ToNumeric(v) == IF NotNA(v) /\ IsDigits(v) THEN Num(DigitsValue(v)) ELSE NumNaN

\* sort_values(["sample_id", "num_reads"], ascending=[True, False]):
\* missing keys last in either direction, ties left in their order
IdBefore(a, b) ==
    IF IsNA(a) THEN FALSE ELSE IF IsNA(b) THEN TRUE ELSE StrLess(a, b)
IdSame(a, b) == (IsNA(a) /\ IsNA(b)) \/ (NotNA(a) /\ NotNA(b) /\ a = b)
ReadsBeforeAscending(x, y) ==
    IF x.nan THEN FALSE ELSE IF y.nan THEN TRUE ELSE x.val < y.val
ReadsBefore(x, y) ==
    IF x.nan THEN FALSE ELSE IF y.nan THEN TRUE ELSE x.val > y.val
SortBefore(a, b) ==
    \/ IdBefore(a.sample_id, b.sample_id)
    \/ IdSame(a.sample_id, b.sample_id) /\ ReadsBefore(a.num_reads, b.num_reads)

RECURSIVE InsertRow(_, _)
InsertRow(x, sorted) ==
    IF sorted = <<>> THEN <<x>>
    ELSE IF SortBefore(x, Head(sorted)) THEN <<x>> \o sorted
    ELSE <<Head(sorted)>> \o InsertRow(x, Tail(sorted))

RECURSIVE SortValues(_)
SortValues(t) ==
    IF t = <<>> THEN <<>>
    ELSE InsertRow(t[Len(t)], SortValues(SubSeq(t, 1, Len(t) - 1)))

\* sorted(list of str)
RECURSIVE InsertStr(_, _)
InsertStr(x, sorted) ==
    IF sorted = <<>> THEN <<x>>
    ELSE IF StrLess(x, Head(sorted)) THEN <<x>> \o sorted
    ELSE <<Head(sorted)>> \o InsertStr(x, Tail(sorted))

RECURSIVE SortStrings(_)
SortStrings(l) ==
    IF l = <<>> THEN <<>>
    ELSE InsertStr(l[Len(l)], SortStrings(SubSeq(l, 1, Len(l) - 1)))

\* the group keys of groupby("sample_id"): the distinct keys, ascending;
\* dropna defaults to True, so a missing key forms no group
RECURSIVE Distinct(_)
Distinct(l) ==
    IF l = <<>> THEN <<>>
    ELSE LET rest == Distinct(SubSeq(l, 1, Len(l) - 1))
             x == l[Len(l)]
         IN  IF InSeq(x, rest) THEN rest ELSE Append(rest, x)
Column(t, c) == [i \in 1..Len(t) |-> t[i][c]]
GroupKeys(t) == SortStrings(Distinct(SelectSeq(Column(t, "sample_id"), NotNA)))

\* the rows of one group, in the order the table has them
GroupRows(t, key) == SelectSeq(t, LAMBDA r : IdSame(r.sample_id, key))

\* first_nonnull: s.dropna(), then its first element, or pd.NA when none is left
first_nonnull(s) ==
    LET s2 == SelectSeq(s, NotNA)
    IN  IF Len(s2) > 0 THEN s2[1] ELSE PDNA

\* GroupBy "sum": nan cells are skipped and an all-nan group sums to 0
GroupFirst(s) == IF s = <<>> THEN NumNaN ELSE s[1]
RECURSIVE SumPoisoned(_)
SumPoisoned(s) ==
    IF s = <<>> THEN Num(0)
    ELSE LET rest == SumPoisoned(Tail(s))
         IN  IF Head(s).nan \/ rest.nan THEN NumNaN ELSE Num(Head(s).val + rest.val)
RECURSIVE GroupSum(_)
GroupSum(s) ==
    IF s = <<>> THEN Num(0)
    ELSE IF Head(s).nan THEN GroupSum(Tail(s))
    ELSE Num(Head(s).val + GroupSum(Tail(s)).val)

\* lon_kept.sort_values(...).groupby("sample_id", as_index=False).agg(agg)
MergeRows(lon_kept) ==
    LET sorted == SortValues(lon_kept)
        keys == GroupKeys(sorted)
    IN  [k \in 1..Len(keys) |->
            LET g == GroupRows(sorted, keys[k])
            IN  [c \in KeepCols \cup {"index"} |->
                    IF c = "index" THEN k - 1
                    ELSE IF c = "num_reads" THEN GroupSum(Column(g, c))
                    ELSE first_nonnull(Column(g, c))]]

\* pick_station: station when present and its trimmed text is none of
\* "", "nan", "None"; else line under the same test; else pd.NA
BlankTexts == {EmptyStr, nanStr, NoneStr}
Usable(v) == NotNA(v) /\ Strip(AsStr(v)) \notin BlankTexts
pick_station_line_first(row) ==
    LET st == row.station
        ln == row.line
    IN  IF Usable(ln) THEN ln ELSE IF Usable(st) THEN st ELSE PDNA
pick_station(row) ==
    LET st == row.station
        ln == row.line
    IN  IF Usable(st) THEN st ELSE IF Usable(ln) THEN ln ELSE PDNA

\* (project_norm == "CSD17_AIR") | stype_norm.str.contains("air", na=False)
AirMaskBoth(r) ==
    /\ Upper(AsStr(r.project)) = CSD17_AIR
    /\ Contains(Lower(AsStr(r.sample_type)), air)
AirMask(r) ==
    \/ Upper(AsStr(r.project)) = CSD17_AIR
    \/ Contains(Lower(AsStr(r.sample_type)), air)

\* DataFrame.drop(labels): the rows whose index label is not among labels
Labels(t) == {t[i].index : i \in 1..Len(t)}
DropBySampleType(t, labels) ==
    SelectSeq(t, LAMBDA r : ~Contains(Lower(AsStr(r.sample_type)), air))
Drop(t, labels) == SelectSeq(t, LAMBDA r : r.index \notin labels)

\* to_csv(index=False): a missing cell is written empty, a float as its
\* shortest decimal (150.0), text as it is; the index is not written
RECURSIVE NatDigits(_)
NatDigits(n) ==
    IF n < 10 THEN <<Digits[n + 1]>>
    ELSE NatDigits(n \div 10) \o <<Digits[(n % 10) + 1]>>
WriteCsvCell(c, v) ==
    IF c = "num_reads"
    THEN IF v.nan THEN EmptyStr ELSE NatDigits(v.val) \o <<".", "0">>
    ELSE IF IsNA(v) THEN EmptyStr ELSE v
ToCsv(t) ==
    [i \in 1..Len(t) |->
        [c \in DOMAIN t[i] \ {"index"} |-> WriteCsvCell(c, t[i][c])]]

\* canon_surface (test2.py)
NonEmptyParts(parts) == SelectSeq(parts, LAMBDA p : Strip(p) # EmptyStr)
CleanParts(parts) == [i \in 1..Len(parts) |-> Lower(Strip(parts[i]))]
canon_surface_unsorted(s) ==
    IF IsNA(s) THEN NaN
    ELSE LET parts == CleanParts(NonEmptyParts(Split(AsStr(s), ";")))
         IN  IF parts # <<>> THEN Join(parts, ";") ELSE NaN
canon_surface_sort_first(s) ==
    IF IsNA(s) THEN NaN
    ELSE LET parts == CleanParts(SortStrings(NonEmptyParts(Split(AsStr(s), ";"))))
         IN  IF parts # <<>> THEN Join(parts, ";") ELSE NaN
canon_surface(s) ==
    IF IsNA(s) THEN NaN
    ELSE LET parts == SortStrings(CleanParts(NonEmptyParts(Split(AsStr(s), ";"))))
         IN  IF parts # <<>> THEN Join(parts, ";") ELSE NaN

----------------------------------------------------------------------------
(* The steps of clean_london_metadata, one action per numbered step *)

NoTable == <<>>
NoFiles == [clean |-> NoTable, air |-> NoTable, surface |-> NoTable]
NoSurf == [surface |-> <<>>, surface_canon |-> <<>>, again |-> <<>>]
NoAnalysis == [clean_surface |-> NoTable, controls |-> NoTable, surf_use |-> NoTable,
               station_summary |-> {}, surface_summary |-> {},
               controls_csv |-> NoTable]
NoNorm == [station_name |-> <<>>, station_norm |-> <<>>, again |-> <<>>]

\* 1) Load
Load ==
    /\ pc = "start"
    /\ df' = ReadCsv(csv)
    /\ pc' = "loaded"
    /\ UNCHANGED <<csv, lon, lon_clean, lon_air, lon_surface, exported, surf, analysis, norm>>

\* 2) Filter London
FilterLondon ==
    /\ pc = "loaded"
    /\ lon' = SelectSeq(df, IsLondon)
    /\ pc' = "filtered"
    /\ UNCHANGED <<csv, df, lon_clean, lon_air, lon_surface, exported, surf, analysis, norm>>

\* 3) Build stable sample_id
BuildSampleId ==
    /\ pc = "filtered"
    /\ lon' = [i \in 1..Len(lon) |-> lon[i] @@ ("sample_id" :> ResolveSampleId(lon[i]))]
    /\ pc' = "identified"
    /\ UNCHANGED <<csv, df, lon_clean, lon_air, lon_surface, exported, surf, analysis, norm>>

\* Ensure num_reads numeric
CoerceNumReads ==
    /\ pc = "identified"
    /\ lon' = [i \in 1..Len(lon) |-> [lon[i] EXCEPT !.num_reads = ToNumeric(@)]]
    /\ pc' = "numeric"
    /\ UNCHANGED <<csv, df, lon_clean, lon_air, lon_surface, exported, surf, analysis, norm>>

\* 4) keep the analysis columns and 5) merge duplicate rows per sample_id
MergeDuplicates ==
    /\ pc = "numeric"
    /\ lon_clean' = MergeRows(lon)
    /\ pc' = "merged"
    /\ UNCHANGED <<csv, df, lon, lon_air, lon_surface, exported, surf, analysis, norm>>

\* 6) Create station_name
CreateStationName ==
    /\ pc = "merged"
    /\ lon_clean' = [i \in 1..Len(lon_clean) |->
                        lon_clean[i] @@ ("station_name" :> pick_station(lon_clean[i]))]
    /\ pc' = "named"
    /\ UNCHANGED <<csv, df, lon, lon_air, lon_surface, exported, surf, analysis, norm>>

\* 7) Split: air vs surface
SplitAirSurface ==
    /\ pc = "named"
    /\ lon_air' = SelectSeq(lon_clean, AirMask)
    /\ lon_surface' = Drop(lon_clean, Labels(lon_air'))
    /\ pc' = "split"
    /\ UNCHANGED <<csv, df, lon, lon_clean, exported, surf, analysis, norm>>

\* 8) Export
Export ==
    /\ pc = "split"
    /\ exported' = [clean |-> ToCsv(lon_clean), air |-> ToCsv(lon_air),
                    surface |-> ToCsv(lon_surface)]
    /\ pc' = "exported"
    /\ UNCHANGED <<csv, df, lon, lon_clean, lon_air, lon_surface, surf, analysis, norm>>

NextClean ==
    \/ Load
    \/ FilterLondon
    \/ BuildSampleId
    \/ CoerceNumReads
    \/ MergeDuplicates
    \/ CreateStationName
    \/ SplitAirSurface
    \/ Export

----------------------------------------------------------------------------
(* canon_surface applied to a column of surface values, and to its result *)

ApplyCanon ==
    /\ pc = "surface"
    /\ surf' = [surf EXCEPT !.surface_canon =
                    [i \in 1..Len(surf.surface) |-> canon_surface(surf.surface[i])]]
    /\ pc' = "surface_canon"
    /\ UNCHANGED <<csv, df, lon, lon_clean, lon_air, lon_surface, exported,
                   analysis, norm>>

ApplyCanonAgain ==
    /\ pc = "surface_canon"
    /\ surf' = [surf EXCEPT !.again =
                    [i \in 1..Len(surf.surface_canon) |-> canon_surface(surf.surface_canon[i])]]
    /\ pc' = "surface_again"
    /\ UNCHANGED <<csv, df, lon, lon_clean, lon_air, lon_surface, exported,
                   analysis, norm>>

NextSurface ==
    \/ ApplyCanon
    \/ ApplyCanonAgain

----------------------------------------------------------------------------
(* Input files.  Every cell is the text the CSV holds; an empty cell is "" *)

T_London == <<"L","o","n","d","o","n">>
T_LONDON == <<"L","O","N","D","O","N">>
T_Paris == <<"P","a","r","i","s">>
T_Blank == <<" ">>
T_S1 == <<"S","1">>
T_S2 == <<"S","2">>
T_M1 == <<"M","1">>
T_u1 == <<"u","1">>
T_CSD16 == <<"C","S","D","1","6">>
T_csd17_air == <<"c","s","d","1","7","_","a","i","r">>
T_Air == <<"A","i","r">>
T_stairs == <<"s","t","a","i","r","s">>
T_swab == <<"s","w","a","b">>
T_Bank == <<"B","a","n","k">>
T_Oval == <<"O","v","a","l">>
T_Central == <<"C","e","n","t","r","a","l">>
T_sp_nan == <<" ","n","a","n">>
T_None_sp == <<"N","o","n","e"," ">>
T_bench == <<"b","e","n","c","h">>
T_100 == <<"1","0","0">>
T_50 == <<"5","0">>
T_x == <<"x">>

BaseRow ==
    [city |-> T_London, sl_name |-> T_S1, metasub_name |-> T_M1, uuid |-> T_u1,
     project |-> T_CSD16, station |-> T_Bank, line |-> T_Central,
     sample_type |-> T_swab, surface |-> T_bench, num_reads |-> T_100]

\* the tables of 1..n rows drawn from rows
Tables(rows, n) == UNION {[1..k -> rows] : k \in 1..n}

\* rows that differ in the three identity columns and the read count
IdRows ==
    {[BaseRow EXCEPT !.sl_name = a, !.metasub_name = b, !.uuid = c, !.num_reads = n] :
        a \in {EmptyStr, T_Blank, T_S1}, b \in {EmptyStr, T_Blank, T_M1},
        c \in {EmptyStr, T_Blank, T_u1}, n \in {T_100, T_50}}

\* rows of two samples that differ in the read count (missing, 50, 100) and in
\* the station (missing, Bank), and two rows of sample S1 at station Oval, one
\* with a non-numeric read count and one that ties on 50
MergeRowSet ==
    {[BaseRow EXCEPT !.sl_name = a, !.num_reads = n, !.station = st] :
        a \in {T_S1, T_S2}, n \in {EmptyStr, T_50, T_100}, st \in {EmptyStr, T_Bank}}
    \cup {[BaseRow EXCEPT !.num_reads = n, !.station = T_Oval] : n \in {T_x, T_50}}

\* rows of two samples that differ in project and sample_type, and two rows
\* of other cities
SplitRows ==
    {[BaseRow EXCEPT !.sl_name = a, !.project = p, !.sample_type = t] :
        a \in {T_S1, T_S2}, p \in {EmptyStr, CSD17_AIR, T_csd17_air, T_CSD16},
        t \in {EmptyStr, T_Air, T_stairs, T_swab}}
    \cup {[BaseRow EXCEPT !.city = c, !.project = CSD17_AIR] : c \in {T_Paris, EmptyStr}}
    \cup {[BaseRow EXCEPT !.city = T_LONDON, !.sl_name = T_S2]}

\* rows of two samples that differ in station and line
StationRows ==
    {[BaseRow EXCEPT !.sl_name = a, !.station = st, !.line = ln] :
        a \in {T_S1, T_S2},
        st \in {EmptyStr, T_Blank, T_Bank, T_sp_nan, T_None_sp},
        ln \in {EmptyStr, T_Blank, T_Central, T_sp_nan}}

InitFile(tables) ==
    /\ csv \in tables
    /\ pc = "start"
    /\ df = NoTable
    /\ lon = NoTable
    /\ lon_clean = NoTable
    /\ lon_air = NoTable
    /\ lon_surface = NoTable
    /\ exported = NoFiles
    /\ surf = NoSurf
    /\ analysis = NoAnalysis
    /\ norm = NoNorm

InitIds == InitFile(Tables(IdRows, MaxIdRows))
InitMerge == InitFile(Tables(MergeRowSet, MaxMergeRows))
InitSplit == InitFile(Tables(SplitRows, MaxSplitRows))
InitStation == InitFile(Tables(StationRows, MaxStationRows))

SpecIds == InitIds /\ [][NextClean]_vars
SpecMerge == InitMerge /\ [][NextClean]_vars
SpecSplit == InitSplit /\ [][NextClean]_vars
SpecStation == InitStation /\ [][NextClean]_vars

\* surface values: missing, or any text of ';', ' ', 'a', 'B' up to MaxSurfLen
SurfChars == {";", " ", "a", "B"}
SurfTexts == UNION {[1..k -> SurfChars] : k \in 0..MaxSurfLen}
\* the surface strings of the documented examples
T_platform_bench == <<"p","l","a","t","f","o","r","m",";","b","e","n","c","h">>
T_bench_platform == <<"b","e","n","c","h",";","p","l","a","t","f","o","r","m">>
T_Bench_Platform == <<"B","e","n","c","h"," ",";"," ","P","l","a","t","f","o","r","m">>
SurfExamples == {T_platform_bench, T_bench_platform, T_Bench_Platform}
SurfValues == {NaN} \cup SurfTexts \cup SurfExamples

InitSurface ==
    /\ surf \in {[surface |-> col, surface_canon |-> <<>>, again |-> <<>>] :
                    col \in [1..2 -> SurfValues]}
    /\ pc = "surface"
    /\ csv = NoTable
    /\ df = NoTable
    /\ lon = NoTable
    /\ lon_clean = NoTable
    /\ lon_air = NoTable
    /\ lon_surface = NoTable
    /\ exported = NoFiles
    /\ analysis = NoAnalysis
    /\ norm = NoNorm

SpecSurface == InitSurface /\ [][NextSurface]_vars

----------------------------------------------------------------------------
(* Properties of clean_london_metadata *)

Identified == pc \in {"identified", "numeric", "merged", "named", "split", "exported"}
Merged == pc \in {"merged", "named", "split", "exported"}
Named == pc \in {"named", "split", "exported"}
SplitDone == pc \in {"split", "exported"}

\* the positions of lon whose resolved sample_id is key
Members(key) == {i \in 1..Len(lon) : IdSame(lon[i].sample_id, key)}

\* the num_reads cell as loaded, before numeric coercion
RawReads(i) == df[lon[i].index + 1].num_reads

\* what a num_reads cell contributes: its value when it is a numeral, else 0
Contribution(v) == IF NotNA(v) /\ IsDigits(v) THEN DigitsValue(v) ELSE 0

RECURSIVE SumContributions(_, _)
SumContributions(n, key) ==
    IF n = 0 THEN 0
    ELSE SumContributions(n - 1, key)
         + (IF n \in Members(key) THEN Contribution(RawReads(n)) ELSE 0)

\* C1: every sample_id group of the filtered rows has one canonical row, and
\* the num_reads of each canonical row is the sum of its group's numeric
\* num_reads, a missing or non-numeric num_reads contributing 0.
C1_ReadsAreSummed ==
    Merged =>
        /\ \A i \in 1..Len(lon) :
              NotNA(lon[i].sample_id) =>
                  Cardinality({k \in 1..Len(lon_clean) :
                                  lon_clean[k].sample_id = lon[i].sample_id}) = 1
        /\ \A k \in 1..Len(lon_clean) :
              lon_clean[k].num_reads =
                  Num(SumContributions(Len(lon), lon_clean[k].sample_id))

\* a group of a numeral and a non-numeric cell, and a group with no numeral at all
C1_Witness ==
    /\ pc = "merged"
    /\ \E k \in 1..Len(lon_clean) :
          /\ lon_clean[k].num_reads.val > 0
          /\ \E i, j \in Members(lon_clean[k].sample_id) :
                /\ IsNA(RawReads(i))
                /\ NotNA(RawReads(j)) /\ IsDigits(RawReads(j))
    /\ \E k \in 1..Len(lon_clean) :
          /\ lon_clean[k].num_reads = Num(0)
          /\ \E i \in Members(lon_clean[k].sample_id) :
                NotNA(RawReads(i)) /\ ~IsDigits(RawReads(i))

\* the rows of a table, as a set
Rows(t) == {t[i] : i \in 1..Len(t)}
Occurrences(t, r) == Cardinality({i \in 1..Len(t) : t[i] = r})

\* C2: after the split every row of lon_clean is in exactly one of lon_air
\* and lon_surface, once, and the two subsets hold nothing else.
C2_SplitIsPartition ==
    SplitDone =>
        /\ \A k \in 1..Len(lon_clean) :
              Occurrences(lon_air, lon_clean[k]) + Occurrences(lon_surface, lon_clean[k]) = 1
        /\ Rows(lon_air) \cap Rows(lon_surface) = {}
        /\ Rows(lon_air) \cup Rows(lon_surface) = Rows(lon_clean)
        /\ Len(lon_air) + Len(lon_surface) = Len(lon_clean)

\* both subsets are inhabited, and an air row is air by its project alone
C2_Witness ==
    /\ pc = "split"
    /\ lon_surface # <<>>
    /\ \E r \in Rows(lon_air) : ~Contains(Lower(AsStr(r.sample_type)), air)

\* a value that is null, or text that is empty after trimming
MissingId(v) == IsNA(v) \/ Strip(v) = EmptyStr
IdCandidates(r) == <<r.sl_name, r.metasub_name, r.uuid>>
HasId(r) == \E n \in 1..3 : ~MissingId(IdCandidates(r)[n])
FirstId(r) ==
    LET n == CHOOSE m \in 1..3 :
                /\ ~MissingId(IdCandidates(r)[m])
                /\ \A l \in 1..(m - 1) : MissingId(IdCandidates(r)[l])
    IN  IdCandidates(r)[n]

\* the scenario's input: two rows with a blank sl_name ("" or " "),
\* metasub_name M1, uuid u1 and read counts 100 and 50
ScenarioRow(sl, n) ==
    [BaseRow EXCEPT !.sl_name = sl, !.metasub_name = T_M1, !.uuid = T_u1,
                    !.num_reads = n]
IsScenario ==
    \E a, b \in {EmptyStr, T_Blank} : csv = <<ScenarioRow(a, T_100), ScenarioRow(b, T_50)>>

\* C3: the resolved sample_id of a filtered row is the first of sl_name,
\* metasub_name, uuid that is neither null nor blank; the two scenario rows
\* collapse to one canonical record with sample_id M1 and num_reads 150.
C3_FirstPresentIdentifier ==
    /\ Identified =>
          \A i \in 1..Len(lon) : HasId(lon[i]) => lon[i].sample_id = FirstId(lon[i])
    /\ (Merged /\ IsScenario) =>
          /\ Len(lon_clean) = 1
          /\ lon_clean[1].sample_id = T_M1
          /\ lon_clean[1].num_reads = Num(150)

\* the scenario has been merged, one row's sl_name empty, the other's a space
C3_Witness ==
    /\ pc = "merged"
    /\ csv = <<ScenarioRow(EmptyStr, T_100), ScenarioRow(T_Blank, T_50)>>
    /\ Len(lon_clean) = 1
    /\ lon_clean[1].sample_id = T_M1
    /\ lon_clean[1].num_reads = Num(150)

\* C4: a filtered row whose sl_name, metasub_name and uuid are all missing
\* keeps a missing identifier and is still represented in lon_clean after
\* the merge.
C4_MissingIdRowIsKept ==
    Merged =>
        \A i \in 1..Len(lon) :
            ~HasId(lon[i]) =>
                /\ MissingId(lon[i].sample_id)
                /\ \E k \in 1..Len(lon_clean) :
                      IdSame(lon_clean[k].sample_id, lon[i].sample_id)

\* two cells of one column agree: both missing, or the same value
SameCell(c, v, w) ==
    IF c = "num_reads" THEN v = w
    ELSE (IsNA(v) /\ IsNA(w)) \/ (NotNA(v) /\ NotNA(w) /\ v = w)

\* row i comes before row j when the rows are ordered by descending num_reads
\* (rows without a numeric num_reads after those with one), rows of equal
\* num_reads in input order
ReadsOf(i) == lon[i].num_reads
Precedes(i, j) ==
    \/ ~ReadsOf(i).nan /\ ReadsOf(j).nan
    \/ ~ReadsOf(i).nan /\ ~ReadsOf(j).nan /\ ReadsOf(i).val > ReadsOf(j).val
    \/ ReadsOf(i) = ReadsOf(j) /\ i < j

\* C5: every kept column but num_reads of a canonical row holds the first
\* non-missing value of its group ordered by descending num_reads, ties in
\* input order; it is missing when the whole group's column is missing.
C5_FirstNonMissingByReads ==
    Merged =>
        \A k \in 1..Len(lon_clean) : \A c \in KeepCols \ {"num_reads"} :
            LET have == {i \in Members(lon_clean[k].sample_id) : NotNA(lon[i][c])}
            IN  IF have = {} THEN IsNA(lon_clean[k][c])
                ELSE \E i \in have :
                        /\ \A j \in have \ {i} : Precedes(i, j)
                        /\ lon_clean[k][c] = lon[i][c]

\* a group of three: the row with most reads has no station, the two others
\* tie on reads and name different stations; the earlier of the two wins
C5_Witness ==
    /\ pc = "merged"
    /\ \E k \in 1..Len(lon_clean) : \E i, j, l \in Members(lon_clean[k].sample_id) :
          /\ i < l
          /\ ReadsOf(i) = ReadsOf(l) /\ ~ReadsOf(i).nan
          /\ ~ReadsOf(j).nan /\ ReadsOf(j).val > ReadsOf(i).val
          /\ IsNA(lon[j].station)
          /\ NotNA(lon[i].station) /\ NotNA(lon[l].station)
          /\ lon[i].station # lon[l].station
          /\ lon_clean[k].station = lon[i].station

\* the canonical rows whose group is a single filtered row, with that row
Singletons ==
    {<<k, i>> \in (1..Len(lon_clean)) \X (1..Len(lon)) :
        Members(lon_clean[k].sample_id) = {i}}

\* C6 as stated: the canonical row of a one-row group equals that row in
\* every kept column, num_reads (after numeric coercion) included.
C6_SingletonIsCopy ==
    Merged =>
        \A p \in Singletons : \A c \in KeepCols :
            SameCell(c, lon_clean[p[1]][c], lon[p[2]][c])

\* C6 amended: the canonical row of a one-row group equals that row in every
\* kept column but num_reads; its num_reads is the row's coerced num_reads
\* when that is a number and 0 when it is missing or non-numeric.
C6_SingletonIsCopyButReads ==
    Merged =>
        \A p \in Singletons :
            /\ \A c \in KeepCols \ {"num_reads"} :
                  SameCell(c, lon_clean[p[1]][c], lon[p[2]][c])
            /\ lon_clean[p[1]].num_reads =
                  (IF lon[p[2]].num_reads.nan THEN Num(0) ELSE lon[p[2]].num_reads)

\* a one-row group without a numeric num_reads comes out with num_reads 0,
\* and without a station stays without one
C6_Witness ==
    /\ pc = "merged"
    /\ \E p \in Singletons :
          /\ lon[p[2]].num_reads.nan
          /\ lon_clean[p[1]].num_reads = Num(0)
          /\ IsNA(lon[p[2]].station)
          /\ IsNA(lon_clean[p[1]].station)

\* the record is air by the contract: project upper-cased is CSD17_AIR, or
\* sample_type lower-cased contains "air"; a missing field matches nothing
IsAirRecord(r) ==
    \/ NotNA(r.project) /\ Upper(r.project) = CSD17_AIR
    \/ NotNA(r.sample_type) /\ Contains(Lower(r.sample_type), air)

\* C7: a canonical record is in the air subset iff it is air by the contract,
\* and in the surface subset otherwise.
C7_AirIffProjectOrSampleType ==
    SplitDone =>
        \A k \in 1..Len(lon_clean) :
            /\ lon_clean[k] \in Rows(lon_air) <=> IsAirRecord(lon_clean[k])
            /\ lon_clean[k] \in Rows(lon_surface) <=> ~IsAirRecord(lon_clean[k])

\* a CSD17_AIR record without sample_type is air, and a record matching
\* neither condition is surface
C7_Witness ==
    /\ pc = "split"
    /\ \E r \in Rows(lon_air) :
          /\ IsNA(r.sample_type)
          /\ Upper(r.project) = CSD17_AIR
    /\ \E r \in Rows(lon_surface) : ~IsAirRecord(r)

\* present and not blank after trimming
Present(v) == NotNA(v) /\ Strip(v) # EmptyStr
\* present, and after trimming none of "", "nan", "None"
PresentAndNamed(v) == NotNA(v) /\ Strip(v) \notin {EmptyStr, nanStr, NoneStr}

\* C8 as stated: station_name is station when station is present and
\* non-blank, else line when line is present and non-blank, else missing.
C8_StationThenLine ==
    Named =>
        \A k \in 1..Len(lon_clean) :
            LET r == lon_clean[k]
            IN  IF Present(r.station) THEN r.station_name = r.station
                ELSE IF Present(r.line) THEN r.station_name = r.line
                ELSE IsNA(r.station_name)

\* C8 amended: a field also counts as blank when its trimmed text is "nan"
\* or "None"; station_name is station unless station is missing or blank in
\* that sense, else line under the same test, else missing.
C8_StationThenLineNamed ==
    Named =>
        \A k \in 1..Len(lon_clean) :
            LET r == lon_clean[k]
            IN  IF PresentAndNamed(r.station) THEN r.station_name = r.station
                ELSE IF PresentAndNamed(r.line) THEN r.station_name = r.line
                ELSE IsNA(r.station_name)

\* a record whose station reads " nan" takes its line, one with a station and
\* a line takes its station, and one with neither has no station_name
C8_Witness ==
    /\ pc = "named"
    /\ \E r \in Rows(lon_clean) :
          /\ r.station = T_sp_nan
          /\ r.line = T_Central
          /\ r.station_name = T_Central
    /\ \E r \in Rows(lon_clean) :
          /\ r.station = T_Bank
          /\ r.line = T_Central
          /\ r.station_name = T_Bank

----------------------------------------------------------------------------
(* Properties of canon_surface *)

Canonized == pc \in {"surface_canon", "surface_again"}

\* the multiset of a surface string's parts: split on ';', each part trimmed
\* and lower-cased, empty parts discarded
SeqToBag(l) == [x \in {l[i] : i \in 1..Len(l)} |-> Cardinality({i \in 1..Len(l) : l[i] = x})]
TrimmedParts(s) ==
    LET parts == Split(s, ";")
        kept == {i \in 1..Len(parts) : Strip(parts[i]) # EmptyStr}
    IN  [x \in {Lower(Strip(parts[i])) : i \in kept} |->
            Cardinality({i \in kept : Lower(Strip(parts[i])) = x})]
NoParts(s) == IsNA(s) \/ DOMAIN TrimmedParts(s) = {}

\* l[i] <= l[i + 1] throughout, in string order
IsSortedStrings(l) == \A i \in 1..(Len(l) - 1) : ~StrLess(l[i + 1], l[i])

\* C9: two surface strings with the same multiset of trimmed, lower-cased,
\* non-empty parts get the same key; the key is those parts in lexicographic
\* order joined by ';'; a missing input or one without a non-empty part gets
\* a missing key; "Bench ; Platform" gives "bench;platform".
C9_CanonIsOrderCaseSpaceFree ==
    Canonized =>
        /\ \A i, j \in 1..Len(surf.surface) :
              (~NoParts(surf.surface[i]) /\ ~NoParts(surf.surface[j])
                 /\ TrimmedParts(surf.surface[i]) = TrimmedParts(surf.surface[j]))
                  => surf.surface_canon[i] = surf.surface_canon[j]
        /\ \A i \in 1..Len(surf.surface) :
              LET s == surf.surface[i]
                  key == surf.surface_canon[i]
              IN  IF NoParts(s) THEN IsNA(key)
                  ELSE /\ NotNA(key)
                       /\ IsSortedStrings(Split(key, ";"))
                       /\ SeqToBag(Split(key, ";")) = TrimmedParts(s)
        /\ \A i \in 1..Len(surf.surface) :
              /\ surf.surface[i] \in SurfExamples => surf.surface_canon[i] = T_bench_platform
              /\ surf.surface[i] = <<"B", ";", "a">> => surf.surface_canon[i] = <<"a", ";", "b">>

\* "platform;bench" beside "Bench ; Platform": one key, "bench;platform"
C9_Witness ==
    /\ pc = "surface_canon"
    /\ surf.surface = <<T_platform_bench, T_Bench_Platform>>
    /\ surf.surface_canon = <<T_bench_platform, T_bench_platform>>

\* C10: canon_surface applied to its own result returns that result.
C10_CanonIsIdempotent ==
    pc = "surface_again" =>
        \A i \in 1..Len(surf.surface) : surf.again[i] = surf.surface_canon[i]

\* a string the first application reorders, lower-cases and trims, beside a
\* missing one
C10_Witness ==
    /\ pc = "surface_again"
    /\ surf.surface = <<<<"B", ";", "a">>, NaN>>
    /\ surf.surface_canon = <<<<"a", ";", "b">>, NaN>>
    /\ surf.again = surf.surface_canon

----------------------------------------------------------------------------
(* test2.py: the analysis of the cleaned surface subset *)

\* the three characters of the mis-encoded apostrophe (U+00E2, U+20AC,
\* U+2122), each written by its name
A_CIRC == "a-circumflex"
EURO == "euro-sign"
TRADE == "trade-mark-sign"

\* the tokens norm_station removes, in the order it removes them
StrippedTokens ==
    << <<".">>, <<",">>, <<"'">>, <<A_CIRC, EURO, TRADE>>,
       <<"(">>, <<")">>, <<"[">>, <<"]">> >>

\* s.replace(tok, ""): one scan from the left over non-overlapping occurrences
RECURSIVE Remove(_, _)
Remove(s, tok) ==
    IF Len(s) < Len(tok) THEN s
    ELSE IF SubSeq(s, 1, Len(tok)) = tok
         THEN Remove(SubSeq(s, Len(tok) + 1, Len(s)), tok)
         ELSE <<Head(s)>> \o Remove(Tail(s), tok)

\* the for loop: one replace per token, in order
RECURSIVE RemoveTokens(_, _)
RemoveTokens(s, toks) ==
    IF toks = <<>> THEN s ELSE RemoveTokens(Remove(s, Head(toks)), Tail(toks))

\* s.split(): the maximal runs of non-whitespace
WhitespaceSplit(s) == SelectSeq(Split(s, " "), LAMBDA p : p # EmptyStr)

\* norm_station
norm_station(s) ==
    IF IsNA(s) THEN NaN
    ELSE Join(WhitespaceSplit(RemoveTokens(Strip(Lower(AsStr(s))), StrippedTokens)), " ")

\* a num_reads cell of a cleaned file, read back: "" is nan, "150.0" is 150
ReadFloatCell(text) ==
    IF Len(text) >= 3 /\ SubSeq(text, Len(text) - 1, Len(text)) = <<".", "0">>
    THEN ToNumeric(SubSeq(text, 1, Len(text) - 2))
    ELSE ToNumeric(ReadCsvCell(text))

\* pd.read_csv of a cleaned file: a new index 0, 1, 2, ...
ReadCleanedCsv(file) ==
    [i \in 1..Len(file) |->
        [c \in DOMAIN file[i] \cup {"index"} |->
            IF c = "index" THEN i - 1
            ELSE IF c = "num_reads" THEN ReadFloatCell(file[i][c])
            ELSE ReadCsvCell(file[i][c])]]

\* clean_surface["station_name"].isna() & clean_surface["surface"].isna()
IsControlEither(r) == IsNA(r.station_name) \/ IsNA(r.surface)
IsControl(r) == IsNA(r.station_name) /\ IsNA(r.surface)

\* the distinct values of a column, missing included (as NaN)
KeysOf(t, c) == {IF IsNA(t[i][c]) THEN NaN ELSE t[i][c] : i \in 1..Len(t)}

\* groupby(key).agg(n_samples=("sample_id", "count")); only the group key and
\* n_samples of the summary tables are carried
CountSamples(t, c, key) ==
    Cardinality({i \in 1..Len(t) : IdSame(t[i][c], key) /\ NotNA(t[i].sample_id)})
\* groupby("station_norm", dropna=False)
StationSummary(t) ==
    {[station_norm |-> k, n_samples |-> CountSamples(t, "station_norm", k)] :
        k \in KeysOf(t, "station_norm")}
\* groupby("surface_canon"): a missing key forms no group
SurfaceSummary(t) ==
    {[surface_canon |-> k, n_samples |-> CountSamples(t, "surface_canon", k)] :
        k \in KeysOf(t, "surface_canon") \ {NaN}}

\* Load cleaned data (the air and the full table are read for their counts only)
LoadCleaned ==
    /\ pc = "exported"
    /\ analysis' = [analysis EXCEPT !.clean_surface = ReadCleanedCsv(exported.surface)]
    /\ pc' = "cleaned_loaded"
    /\ UNCHANGED <<csv, df, lon, lon_clean, lon_air, lon_surface, exported, surf, norm>>

\* Identify & remove likely controls (surface subset)
SplitControls ==
    /\ pc = "cleaned_loaded"
    /\ LET controls == SelectSeq(analysis.clean_surface, IsControl)
       IN  analysis' = [analysis EXCEPT
                           !.controls = controls,
                           !.surf_use = Drop(analysis.clean_surface, Labels(controls))]
    /\ pc' = "controls_split"
    /\ UNCHANGED <<csv, df, lon, lon_clean, lon_air, lon_surface, exported, surf, norm>>

\* Feature engineering for station-level analysis
AddFeatures ==
    /\ pc = "controls_split"
    /\ analysis' = [analysis EXCEPT !.surf_use =
            [i \in 1..Len(analysis.surf_use) |->
                analysis.surf_use[i]
                    @@ ("surface_canon" :> canon_surface(analysis.surf_use[i].surface))
                    @@ ("station_norm" :> norm_station(analysis.surf_use[i].station_name))]]
    /\ pc' = "featured"
    /\ UNCHANGED <<csv, df, lon, lon_clean, lon_air, lon_surface, exported, surf, norm>>

\* Station-level and surface-level summary tables
Summarise ==
    /\ pc = "featured"
    /\ analysis' = [analysis EXCEPT
                       !.station_summary = StationSummary(analysis.surf_use),
                       !.surface_summary = SurfaceSummary(analysis.surf_use)]
    /\ pc' = "summarised"
    /\ UNCHANGED <<csv, df, lon, lon_clean, lon_air, lon_surface, exported, surf, norm>>

\* controls.to_csv("london_controls_like_samples.csv", index=False)
SaveControls ==
    /\ pc = "summarised"
    /\ analysis' = [analysis EXCEPT !.controls_csv = ToCsv(analysis.controls)]
    /\ pc' = "saved"
    /\ UNCHANGED <<csv, df, lon, lon_clean, lon_air, lon_surface, exported, surf, norm>>

\* clean_london_metadata, then the analysis script on the files it wrote
NextAnalysis ==
    \/ NextClean
    \/ LoadCleaned
    \/ SplitControls
    \/ AddFeatures
    \/ Summarise
    \/ SaveControls

\* rows of two samples that differ in station (missing, Bank, " nan") and in
\* surface (missing, bench, a space); a row with a line only; an air row
T_S3 == <<"S","3">>
ControlRows ==
    {[BaseRow EXCEPT !.sl_name = a, !.station = st, !.line = EmptyStr, !.surface = su] :
        a \in {T_S1, T_S2}, st \in {EmptyStr, T_Bank, T_sp_nan},
        su \in {EmptyStr, T_bench, T_Blank}}
    \cup {[BaseRow EXCEPT !.sl_name = T_S3, !.station = EmptyStr, !.surface = EmptyStr]}
    \cup {[BaseRow EXCEPT !.sl_name = T_S3, !.station = EmptyStr, !.line = EmptyStr,
                          !.surface = EmptyStr, !.sample_type = T_Air]}

InitControls == InitFile(Tables(ControlRows, MaxControlRows))
SpecControls == InitControls /\ [][NextAnalysis]_vars

----------------------------------------------------------------------------
(* Properties of the control-sample split *)

ControlsSplit == pc \in {"controls_split", "featured", "summarised", "saved"}
Summarised == pc \in {"summarised", "saved"}

\* how many rows of t carry index label l
LabelCount(t, l) == Cardinality({i \in 1..Len(t) : t[i].index = l})

RECURSIVE TotalSamples(_)
TotalSamples(summary) ==
    IF summary = {} THEN 0
    ELSE LET g == CHOOSE x \in summary : TRUE
         IN  g.n_samples + TotalSamples(summary \ {g})

\* C11: a row of the surface subset is in controls iff its station_name and
\* its surface are both missing (in lon_surface as written, and as read back);
\* controls and surf_use hold each surface-subset row exactly once; the
\* station summary counts the surf_use rows only; the controls export holds
\* the controls and no surf_use row.
C11_ControlsIffBothMissing ==
    /\ ControlsSplit =>
          /\ Len(analysis.clean_surface) = Len(lon_surface)
          /\ \A i \in 1..Len(analysis.clean_surface) :
                LET r == analysis.clean_surface[i]
                    both == IsNA(lon_surface[i].station_name) /\ IsNA(lon_surface[i].surface)
                IN  /\ both <=> (IsNA(r.station_name) /\ IsNA(r.surface))
                    /\ LabelCount(analysis.controls, r.index) = (IF both THEN 1 ELSE 0)
                    /\ LabelCount(analysis.surf_use, r.index) = (IF both THEN 0 ELSE 1)
          /\ Len(analysis.controls) + Len(analysis.surf_use) = Len(analysis.clean_surface)
    /\ Summarised =>
          TotalSamples(analysis.station_summary) = Len(analysis.surf_use)
    /\ pc = "saved" =>
          /\ Len(analysis.controls_csv) = Len(analysis.controls)
          /\ \A i \in 1..Len(analysis.controls) :
                analysis.controls_csv[i].sample_id = analysis.controls[i].sample_id
          /\ \A i \in 1..Len(analysis.surf_use) : \A j \in 1..Len(analysis.controls_csv) :
                analysis.controls_csv[j].sample_id # analysis.surf_use[i].sample_id

\* a control beside a surface row that lacks a station_name but has a surface
C11_Witness ==
    /\ pc = "saved"
    /\ Len(analysis.controls_csv) = 1
    /\ \E i \in 1..Len(analysis.surf_use) :
          /\ IsNA(analysis.surf_use[i].station_name)
          /\ NotNA(analysis.surf_use[i].surface)
    /\ TotalSamples(analysis.station_summary) = 1

----------------------------------------------------------------------------
(* norm_station applied to a column of station names, and to its result *)

ApplyNorm ==
    /\ pc = "station"
    /\ norm' = [norm EXCEPT !.station_norm =
                    [i \in 1..Len(norm.station_name) |-> norm_station(norm.station_name[i])]]
    /\ pc' = "station_norm"
    /\ UNCHANGED <<csv, df, lon, lon_clean, lon_air, lon_surface, exported, surf, analysis>>

ApplyNormAgain ==
    /\ pc = "station_norm"
    /\ norm' = [norm EXCEPT !.again =
                    [i \in 1..Len(norm.station_norm) |-> norm_station(norm.station_norm[i])]]
    /\ pc' = "station_again"
    /\ UNCHANGED <<csv, df, lon, lon_clean, lon_air, lon_surface, exported, surf, analysis>>

NextNorm ==
    \/ ApplyNorm
    \/ ApplyNormAgain

\* station names: missing, or any text of these characters up to MaxNormLen
NormChars == {"A", "b", " ", ".", "(", A_CIRC, EURO, TRADE}
NormTexts == UNION {[1..k -> NormChars] : k \in 0..MaxNormLen}
NormValues == {NaN} \cup NormTexts

InitNorm ==
    /\ norm \in {[station_name |-> <<v>>, station_norm |-> <<>>, again |-> <<>>] :
                    v \in NormValues}
    /\ pc = "station"
    /\ csv = NoTable
    /\ df = NoTable
    /\ lon = NoTable
    /\ lon_clean = NoTable
    /\ lon_air = NoTable
    /\ lon_surface = NoTable
    /\ exported = NoFiles
    /\ surf = NoSurf
    /\ analysis = NoAnalysis

SpecNorm == InitNorm /\ [][NextNorm]_vars

Normed == pc \in {"station_norm", "station_again"}

NoUpperCase(s) == \A i \in 1..Len(s) : ~InSeq(s[i], UpperLetters)
NoOuterSpace(s) == s = <<>> \/ (s[1] # " " /\ s[Len(s)] # " ")
NoSpaceRun(s) == \A i \in 1..(Len(s) - 1) : ~(s[i] = " " /\ s[i + 1] = " ")
NoToken(s, tok) == ~Contains(s, tok)

\* C12: the result of norm_station on a non-missing string has no upper-case
\* letter, no leading or trailing whitespace, no run of whitespace and no
\* stripped token ('.', ',', "'", the mis-encoded apostrophe, '(', ')', '[',
\* ']'); norm_station applied to its own result changes nothing.
C12_FullyNormalized ==
    /\ Normed =>
          \A i \in 1..Len(norm.station_name) :
              NotNA(norm.station_name[i]) =>
                  LET r == norm.station_norm[i]
                  IN  /\ NoUpperCase(r)
                      /\ NoOuterSpace(r)
                      /\ NoSpaceRun(r)
                      /\ \A t \in 1..Len(StrippedTokens) : NoToken(r, StrippedTokens[t])
    /\ pc = "station_again" =>
          \A i \in 1..Len(norm.station_name) : norm.again[i] = norm.station_norm[i]

\* what does hold of every result: lower case, whitespace collapsed, and none
\* of the one-character tokens left
NormalizedButArtifact ==
    Normed =>
        \A i \in 1..Len(norm.station_name) :
            NotNA(norm.station_name[i]) =>
                LET r == norm.station_norm[i]
                IN  /\ NoUpperCase(r)
                    /\ NoOuterSpace(r)
                    /\ NoSpaceRun(r)
                    /\ \A t \in 1..Len(StrippedTokens) :
                          Len(StrippedTokens[t]) = 1 => NoToken(r, StrippedTokens[t])

====
